---- MODULE Spec2Model ----
(***************************************************************************)
(* Gold & Alloy Toolkit (src/goldash/goldash.cpp).                         *)
(*                                                                         *)
(* The file holds two variants of the program: the first (lines 1-305)     *)
(* asks for the price of gold at every valuation, the second (lines        *)
(* 307-748) keeps it in g_currentGoldPrice and in a price file.  The       *)
(* model runs either variant (variable "variant").                         *)
(*                                                                         *)
(* A double is modelled as an exact fraction <<n, d>> in lowest terms,     *)
(* d > 0; a zero denominator stands for the non-finite values a division   *)
(* by zero produces: <<1,0>> is +Inf, <<-1,0>> is -Inf, <<0,0>> is NaN.    *)
(* The rounding of binary floating point is not modelled.                  *)
(***************************************************************************)
EXTENDS Integers, Sequences, FiniteSets, TLC

(***************************************************************************)
(* Arithmetic of double                                                    *)
(***************************************************************************)
Abs(n) == IF n < 0 THEN -n ELSE n

Sgn(n) == IF n < 0 THEN -1 ELSE IF n > 0 THEN 1 ELSE 0

RECURSIVE GCD(_, _)
GCD(a, b) == IF b = 0 THEN a ELSE GCD(b, a % b)

\* greatest common divisor used for cancelling, never 0
Cancel(a, b) == LET g == GCD(Abs(a), Abs(b)) IN IF g = 0 THEN 1 ELSE g

Norm(n, d) ==
  IF d = 0 THEN <<Sgn(n), 0>>
  ELSE LET g == Cancel(n, d)
           s == IF d < 0 THEN -1 ELSE 1
       IN  <<s * (n \div g), s * (d \div g)>>

\* the double written n/d in decimal, e.g. R(1932, 100) is 19.32
R(n, d) == Norm(n, d)

Zero == <<0, 1>>

NaN == <<0, 0>>

IsFinite(x) == x[2] > 0

Neg(x) == <<-x[1], x[2]>>

Add(a, b) ==
  IF a[2] = 0 /\ b[2] = 0 THEN (IF a = b THEN a ELSE NaN)
  ELSE LET g == Cancel(a[2], b[2])
       IN  Norm(a[1] * (b[2] \div g) + b[1] * (a[2] \div g), (a[2] \div g) * b[2])

Sub(a, b) == Add(a, Neg(b))

Mul(a, b) ==
  LET g1 == Cancel(a[1], b[2])
      g2 == Cancel(b[1], a[2])
  IN  Norm((a[1] \div g1) * (b[1] \div g2), (a[2] \div g2) * (b[2] \div g1))

\* 1/x; 1/0 is +Inf, 1/Inf is 0, 1/NaN is NaN
Inv(x) ==
  IF x = NaN THEN NaN
  ELSE IF x[1] < 0 THEN <<-x[2], -x[1]>> ELSE <<x[2], x[1]>>

Div(a, b) == Mul(a, Inv(b))

\* a < b; every comparison with NaN is false
Less(a, b) ==
  IF a = NaN \/ b = NaN THEN FALSE
  ELSE IF a[2] = 0 \/ b[2] = 0
       THEN (IF a[2] = 0 THEN a[1] ELSE 0) < (IF b[2] = 0 THEN b[1] ELSE 0)
       ELSE LET g == Cancel(a[2], b[2])
            IN  a[1] * (b[2] \div g) < b[1] * (a[2] \div g)

Greater(a, b) == Less(b, a)

LessEq(a, b) == a /= NaN /\ b /= NaN /\ ~Less(b, a)

GreaterEq(a, b) == LessEq(b, a)

FAbs(x) == <<Abs(x[1]), x[2]>>

FMin(a, b) == IF Less(b, a) THEN b ELSE a

FMax(a, b) == IF Less(a, b) THEN b ELSE a

(***************************************************************************)
(* Constants of the program                                                *)
(***************************************************************************)
DENSITY_WATER == R(1, 1)

DENSITY_PURE_GOLD == R(1932, 100)

DENSITY_COPPER == R(896, 100)

DENSITY_SILVER == R(1049, 100)

DENSITY_PLATINUM == R(2145, 100)

DENSITY_PALLADIUM == R(1202, 100)

\* the literal 0.05 of the range test and of the pure-gold test
Tolerance == R(5, 100)

\* the literal 24.0
Karat24 == R(24, 1)

Hundred == R(100, 1)

One == R(1, 1)

\* a double that holds no value yet (declared, not assigned; or out of scope)
Unset == <<0, -1>>

\* a token that is not a number: the extraction fails, cin.good() is false
Bad == <<0, -2>>

(***************************************************************************)
(* Bounds of the model and the tokens typed at the prompts                 *)
(***************************************************************************)
\* densities 1.00, 2.00, ... MaxGrid.00 g/cm^3 are typed at the density prompt
MaxGrid == 22

\* target karats 1, 2, ... MaxKaratInput are typed at the karat prompt
MaxKaratInput == 25

\* densities (in 1/100 g/cm^3) at and around the edges of the ranges
EdgeDensities ==
  {890, 891, 892, 896, 1043, 1044, 1049, 1196, 1197, 1202, 1485,
   1926, 1927, 1928, 1930, 1932, 1936, 1937, 1938, 2145, 2150, 2151}

\* tokens every numeric prompt refuses
RefusedTokens == {Bad, Zero, R(-1, 1)}

DensityTokens ==
  {R(k, 1) : k \in 1..MaxGrid} \cup {R(h, 100) : h \in EdgeDensities}

MassTokens == {R(10, 1), R(1930, 100)}

\* densities (in 1/100 g/cm^3) the buoyancy measurements produce
WeighedDensities == {890, 891, 892, 1927, 1928, 1930, 1932, 1937, 1938, 2150, 2151}

\* weights in air (grams): with one gram of displaced water the density has
\* the same digits as the weight in air
AirTokens == {R(h, 100) : h \in WeighedDensities}

\* weights in water: one gram less than a weight in air, the 18.00 g of the
\* documented scenario, and two weights no smaller than a weight in air
WaterTokens ==
  {R(h - 100, 100) : h \in WeighedDensities} \cup {R(18, 1), R(1930, 100), R(25, 1)}

PriceTokens == {R(50, 1), R(1, 2)}

GoldMassTokens == {R(10, 1), R(25, 10)}

KaratTokens ==
  {R(k, 1) : k \in 1..MaxKaratInput} \cup {R(145, 10), R(2399, 100)}

\* reverse alloying: the mass and the karat of the alloy on hand
InitialMassTokens == {R(20, 1), R(10, 1)}

InitialKaratTokens == {R(10, 1), R(14, 1), R(18, 1), R(24, 1)}

\* tokens typed where an int is read (menu, impurity)
ChoiceTokens == {R(k, 1) : k \in 0..8} \cup {Bad}

\* what gold_price.dat may hold when the program starts
PriceFileContents == {Unset, R(-5, 1), R(50, 1)}

(***************************************************************************)
(* Functions of the program                                                *)
(***************************************************************************)
\* a validation that lets zero through
Validated_nonNegative(value) == value /= Bad /\ GreaterEq(value, Zero)

\* getValidatedNumericInput: the loop leaves only with a good, positive value
Validated(value) == value /= Bad /\ Greater(value, Zero)

\* chooseImpurity: the switch on a good choice
ImpurityChosen(choice) == choice \in {R(1, 1), R(2, 1), R(3, 1), R(4, 1)}

chooseImpurity(choice) ==
  CASE choice = R(1, 1) -> [name |-> "Copper", density |-> DENSITY_COPPER]
    [] choice = R(2, 1) -> [name |-> "Silver", density |-> DENSITY_SILVER]
    [] choice = R(3, 1) -> [name |-> "Platinum", density |-> DENSITY_PLATINUM]
    [] choice = R(4, 1) -> [name |-> "Palladium", density |-> DENSITY_PALLADIUM]
\* a loop that also leaves when the two weights are equal
WaterAccepted_inclusive(weightInAirV, weightInWaterV) ==
  LessEq(weightInWaterV, weightInAirV)

\* the loop on the weight in water leaves when this holds
WaterAccepted(weightInAirV, weightInWaterV) == Less(weightInWaterV, weightInAirV)
\* a density that divides by the submerged weight, not by the displaced water
BuoyancyDensity_submerged(v, weightInAirV, weightInWaterV) ==
  Div(weightInAirV, weightInWaterV)

\* density and volume of the object, as each variant computes them
BuoyancyDensity(v, weightInAirV, weightInWaterV) ==
  IF v = 1
  THEN LET displacedWaterMass == Sub(weightInAirV, weightInWaterV)
           volume == Div(displacedWaterMass, DENSITY_WATER)
       IN  Div(weightInAirV, volume)
  ELSE Div(weightInAirV, Sub(weightInAirV, weightInWaterV))

BuoyancyVolume(v, weightInAirV, weightInWaterV) ==
  IF v = 1
  THEN Div(Sub(weightInAirV, weightInWaterV), DENSITY_WATER)
  ELSE Div(weightInAirV, BuoyancyDensity(v, weightInAirV, weightInWaterV))

lowerBound(impurityDensity) == FMin(DENSITY_PURE_GOLD, impurityDensity)

upperBound(impurityDensity) == FMax(DENSITY_PURE_GOLD, impurityDensity)
\* a range test whose two edges are refused
WeightOutOfRange_exclusive(density, impurityDensity) ==
  \/ LessEq(density, Sub(lowerBound(impurityDensity), Tolerance))
  \/ GreaterEq(density, Add(upperBound(impurityDensity), Tolerance))

\* performPurityCalculation, first test: the density is not possible for
\* the alloy
WeightOutOfRange(density, impurityDensity) ==
  \/ Less(density, Sub(lowerBound(impurityDensity), Tolerance))
  \/ Greater(density, Add(upperBound(impurityDensity), Tolerance))

\* performPurityCalculation, second test: the density is that of pure gold
WeightNearPureGold(density) ==
  Less(FAbs(Sub(density, DENSITY_PURE_GOLD)), Tolerance)

WeightBranch(density, impurityDensity) ==
  IF WeightOutOfRange(density, impurityDensity) THEN "invalid"
  ELSE IF WeightNearPureGold(density) THEN "pure" ELSE "mixed"
\* a range test without the tolerance
DensityOutOfRange_noTolerance(density, impurityDensity) ==
  \/ Less(density, lowerBound(impurityDensity))
  \/ Greater(density, upperBound(impurityDensity))

\* performDensityToPurityConversion, the same two tests
DensityOutOfRange(density, impurityDensity) ==
  \/ Less(density, Sub(lowerBound(impurityDensity), Tolerance))
  \/ Greater(density, Add(upperBound(impurityDensity), Tolerance))

DensityNearPureGold(density) ==
  Less(FAbs(Sub(density, DENSITY_PURE_GOLD)), Tolerance)

DensityBranch(density, impurityDensity) ==
  IF DensityOutOfRange(density, impurityDensity) THEN "invalid"
  ELSE IF DensityNearPureGold(density) THEN "pure" ELSE "mixed"
\* a volume fraction with the numerator the wrong way round
volumeFractionGold_swapped(density, impurityDensity) ==
  Div(Sub(impurityDensity, density), Sub(DENSITY_PURE_GOLD, impurityDensity))

\* volume-fraction mixing law of the from-weight calculation
volumeFractionGold(density, impurityDensity) ==
  Div(Sub(density, impurityDensity), Sub(DENSITY_PURE_GOLD, impurityDensity))

\* the volume of the gold, not its mass
VolumeMassOfPureGold_volume(density, impurityDensity, objectVolumeV) ==
  Mul(volumeFractionGold(density, impurityDensity), objectVolumeV)

VolumeMassOfPureGold(density, impurityDensity, objectVolumeV) ==
  Mul(Mul(volumeFractionGold(density, impurityDensity), objectVolumeV), DENSITY_PURE_GOLD)
\* a mass fraction taken from the densities, not from their reciprocals
massFraction_direct(density, impurityDensity) ==
  Div(Sub(density, impurityDensity), Sub(DENSITY_PURE_GOLD, impurityDensity))

\* reciprocal-density mixing law of the from-density calculation
massFraction(density, impurityDensity) ==
  LET p_numerator == Sub(Div(One, density), Div(One, impurityDensity))
      p_denominator == Sub(Div(One, DENSITY_PURE_GOLD), Div(One, impurityDensity))
  IN  Div(p_numerator, p_denominator)

\* a karat value with the ratio upside down
KaratsOf_inverted(purity) == Mul(purity, Div(Hundred, Karat24))

KaratsOf(purity) == Mul(purity, Div(Karat24, Hundred))

\* the results of performPurityCalculation once both weights are read
PurityFromWeight(v, impurityDensity, weightInAirV, weightInWaterV) ==
  LET density == BuoyancyDensity(v, weightInAirV, weightInWaterV)
      volume == BuoyancyVolume(v, weightInAirV, weightInWaterV)
      branch == WeightBranch(density, impurityDensity)
      mass == VolumeMassOfPureGold(density, impurityDensity, volume)
      purity == Mul(Div(mass, weightInAirV), Hundred)
  IN  CASE branch = "invalid" ->
             [objectDensity |-> density, objectVolume |-> volume, outcome |-> branch,
              fraction |-> Unset, massOfPureGold |-> Zero,
              purityPercentage |-> Zero, karats |-> Zero]
        [] branch = "pure" ->
             [objectDensity |-> density, objectVolume |-> volume, outcome |-> branch,
              fraction |-> Unset, massOfPureGold |-> weightInAirV,
              purityPercentage |-> Hundred, karats |-> Karat24]
        [] branch = "mixed" ->
             [objectDensity |-> density, objectVolume |-> volume, outcome |-> branch,
              fraction |-> volumeFractionGold(density, impurityDensity),
              massOfPureGold |-> mass,
              purityPercentage |-> purity, karats |-> KaratsOf(purity)]

\* the results of performDensityToPurityConversion once the impurity is read
PurityFromDensity(impurityDensity, density, totalMassV) ==
  LET branch == DensityBranch(density, impurityDensity)
      p == massFraction(density, impurityDensity)
      purity == Mul(p, Hundred)
  IN  CASE branch = "invalid" ->
             [outcome |-> branch, fraction |-> Unset, massOfPureGold |-> Zero,
              purityPercentage |-> Zero, karats |-> Zero]
        [] branch = "pure" ->
             [outcome |-> branch, fraction |-> Unset, massOfPureGold |-> totalMassV,
              purityPercentage |-> Hundred, karats |-> Karat24]
        [] branch = "mixed" ->
             [outcome |-> branch, fraction |-> p, massOfPureGold |-> Mul(totalMassV, p),
              purityPercentage |-> purity, karats |-> KaratsOf(purity)]
\* a loop that also leaves at 24 karat
KaratAccepted_inclusive(targetKaratV) == LessEq(targetKaratV, Karat24)

\* the loop on the target karat leaves when this holds
KaratAccepted(targetKaratV) == Less(targetKaratV, Karat24)

AlloyTargetPurity(targetKaratV) == Div(targetKaratV, Karat24)
\* an impurity mass that forgets to take the gold off the total
AlloyImpurityMass_total(goldMassV, targetKaratV) ==
  Mul(goldMassV, Div(One, AlloyTargetPurity(targetKaratV)))

AlloyImpurityMass(goldMassV, targetKaratV) ==
  Mul(goldMassV, Sub(Div(One, AlloyTargetPurity(targetKaratV)), One))

AlloyTotalMass(goldMassV, targetKaratV) ==
  Add(goldMassV, AlloyImpurityMass(goldMassV, targetKaratV))

RECURSIVE Pow10(_)
Pow10(k) == IF k <= 0 THEN 1 ELSE 10 * Pow10(k - 1)

\* floor(log10(x)) of a finite x > 0
RECURSIVE Exp10(_, _)
Exp10(x, e) ==
  IF Less(x, One) THEN Exp10(Mul(x, R(10, 1)), e - 1)
  ELSE IF Less(x, R(10, 1)) THEN e
  ELSE Exp10(Div(x, R(10, 1)), e + 1)

\* x rounded to the nearest multiple of 1/scale
RoundTo(x, scale) ==
  LET y == Mul(x, R(scale, 1))
  IN  R((2 * y[1] + y[2]) \div (2 * y[2]), scale)

\* operator<< of a double into a stream with the default format: six
\* significant digits
SixDigits(x) ==
  IF ~IsFinite(x) \/ x = Zero THEN x
  ELSE LET e == Exp10(FAbs(x), 0)
       IN  IF e <= 5 THEN RoundTo(x, Pow10(5 - e))
           ELSE Mul(RoundTo(Div(x, R(Pow10(e - 5), 1)), 1), R(Pow10(e - 5), 1))

\* loadGoldPriceFromFile: the price in the file, 0.0 when there is none
loadGoldPriceFromFile(file) ==
  LET price == IF file = Unset \/ file = Bad THEN Zero ELSE file
  IN  IF Greater(price, Zero) THEN price ELSE Zero

(***************************************************************************)
(* State                                                                   *)
(***************************************************************************)
VARIABLES
  variant,            \* 1: the program of lines 1-305, 2: that of lines 307-748,
                      \* 3: the variant with the reverse-alloying calculator
  pc,                 \* the prompt the program waits at
  op,                 \* the handler running, or the last one run
  g_currentGoldPrice, \* the global price per gram (variant 2)
  priceFile,          \* the content of gold_price.dat (variant 2)
  impurityName, densityOfImpurity,
  weightInAir, weightInWater, objectDensity, objectVolume, totalMass,
  outcome,            \* the branch the purity calculation took
  fraction,           \* volumeFractionGold (from weight), massFraction (from density)
  massOfPureGold, purityPercentage, karats,
  pricePerGram,       \* the price typed into calculateMarketValue (variant 1)
  totalValue,         \* the market value, Unset when none is computed
  goldMass, targetKarat, targetPurity, impurityMass, totalAlloyMass,
  initialMass, initialKarat, initialPurity, addedGoldMass, finalMass

price == <<g_currentGoldPrice, priceFile>>

sample ==
  <<impurityName, densityOfImpurity, weightInAir, weightInWater, objectDensity,
    objectVolume, totalMass>>

result == <<outcome, fraction, massOfPureGold, purityPercentage, karats>>

alloy == <<goldMass, targetKarat, targetPurity, impurityMass, totalAlloyMass>>

reverse == <<initialMass, initialKarat, initialPurity, addedGoldMass, finalMass>>

vars ==
  <<variant, pc, op, price, sample, result, pricePerGram, totalValue, alloy, reverse>>

\* the locals of a handler when it is entered
FreshLocals ==
  /\ impurityName' = ""
  /\ densityOfImpurity' = Unset
  /\ weightInAir' = Unset
  /\ weightInWater' = Unset
  /\ objectDensity' = Unset
  /\ objectVolume' = Unset
  /\ totalMass' = Unset
  /\ outcome' = "none"
  /\ fraction' = Unset
  /\ massOfPureGold' = Unset
  /\ purityPercentage' = Unset
  /\ karats' = Unset
  /\ totalValue' = Unset
  /\ goldMass' = Unset
  /\ targetKarat' = Unset
  /\ targetPurity' = Unset
  /\ impurityMass' = Unset
  /\ totalAlloyMass' = Unset
  /\ pricePerGram' = Unset
  /\ initialMass' = Unset
  /\ initialKarat' = Unset
  /\ initialPurity' = Unset
  /\ addedGoldMass' = Unset
  /\ finalMass' = Unset

\* the two programs of the source file, and the variant that is not in it
Variants == {1, 2, 3}

\* the handlers below are those of the two programs of the source file
InSource == variant \in {1, 2}

\* main, before the loop: variant 2 loads the price
Init ==
  /\ variant \in Variants
  /\ pc = "menu"
  /\ op = "none"
  /\ priceFile \in (IF variant = 2 THEN PriceFileContents ELSE {Unset})
  /\ g_currentGoldPrice =
       (IF variant = 2 THEN loadGoldPriceFromFile(priceFile) ELSE Zero)
  /\ impurityName = ""
  /\ densityOfImpurity = Unset
  /\ weightInAir = Unset
  /\ weightInWater = Unset
  /\ objectDensity = Unset
  /\ objectVolume = Unset
  /\ totalMass = Unset
  /\ outcome = "none"
  /\ fraction = Unset
  /\ massOfPureGold = Unset
  /\ purityPercentage = Unset
  /\ karats = Unset
  /\ totalValue = Unset
  /\ goldMass = Unset
  /\ targetKarat = Unset
  /\ targetPurity = Unset
  /\ impurityMass = Unset
  /\ totalAlloyMass = Unset
  /\ pricePerGram = Unset
  /\ initialMass = Unset
  /\ initialKarat = Unset
  /\ initialPurity = Unset
  /\ addedGoldMass = Unset
  /\ finalMass = Unset

(***************************************************************************)
(* main: the menu                                                          *)
(***************************************************************************)
\* the number of the last menu entry, which exits
ExitChoice(v) == IF v = 1 THEN R(5, 1) ELSE R(7, 1)

\* the switch of main on a good choice; the locals of the handler last run are
\* gone
Dispatch(choice, handler, prompt) ==
  /\ pc = "menu"
  /\ choice \in ChoiceTokens
  /\ op' = handler
  /\ pc' = prompt
  /\ FreshLocals
  /\ UNCHANGED <<variant, price>>

main_performPurityCalculation ==
  InSource /\ Dispatch(R(1, 1), "performPurityCalculation", "pw_impurity")

main_performDensityToPurityConversion ==
  InSource /\ Dispatch(R(2, 1), "performDensityToPurityConversion", "pd_density")

main_performAlloyingCalculation ==
  InSource /\ Dispatch(R(3, 1), "performAlloyingCalculation", "al_gold")

displayKaratInfo == InSource /\ Dispatch(R(4, 1), "displayKaratInfo", "menu")

main_manageGoldPrice == variant = 2 /\ Dispatch(R(5, 1), "manageGoldPrice", "mp_price")

displayHelp == variant = 2 /\ Dispatch(R(6, 1), "displayHelp", "menu")

main_exit == Dispatch(ExitChoice(variant), "exit", "exit")

\* a choice that is no menu entry, or not a number
main_invalid ==
  \E choice \in ChoiceTokens :
    /\ choice = Bad \/ Less(choice, One) \/ Greater(choice, ExitChoice(variant))
    /\ Dispatch(choice, "invalid", "menu")

(***************************************************************************)
(* calculateMarketValue                                                    *)
(***************************************************************************)
\* an early return taken for a negative mass only
NoValuation_strict(pureGoldMass) == Less(pureGoldMass, Zero)

\* the early return
NoValuation(pureGoldMass) == LessEq(pureGoldMass, Zero)

\* a price asked for only when the stored one is negative
PriceAsked_negativeOnly(v, currentPrice) == v = 1 \/ Less(currentPrice, Zero)

\* a price asked for at every valuation
PriceAsked_always(v, currentPrice) == TRUE

\* the price is asked for: always in variant 1, when none is set in variant 2
PriceAsked(v, currentPrice) == v = 1 \/ LessEq(currentPrice, Zero)

MarketValue(pureGoldMass, perGram) == Mul(pureGoldMass, perGram)

\* saveGoldPriceToFile: the file may fail to open, and then keeps its content
saveGoldPriceToFile(savedPrice) ==
  \E opened \in BOOLEAN :
    priceFile' = IF opened THEN SixDigits(savedPrice) ELSE priceFile

\* the call at the end of a purity calculation, up to its prompt or return
calculateMarketValue(called, pureGoldMass) ==
  IF ~called \/ NoValuation(pureGoldMass)
  THEN /\ pc' = "menu"
       /\ totalValue' = Unset
       /\ UNCHANGED price
  ELSE IF PriceAsked(variant, g_currentGoldPrice)
       THEN /\ pc' = "mv_price"
            /\ totalValue' = Unset
            /\ UNCHANGED price
       ELSE /\ pc' = "menu"
            /\ totalValue' = MarketValue(pureGoldMass, g_currentGoldPrice)
            /\ UNCHANGED price

\* the prompt of calculateMarketValue and the rest of the handler
calculateMarketValue_price ==
  \E value \in PriceTokens \cup RefusedTokens :
    /\ pc = "mv_price"
    /\ IF Validated(value)
       THEN /\ pc' = "menu"
            /\ totalValue' = MarketValue(massOfPureGold, value)
            /\ IF variant = 2
               THEN /\ g_currentGoldPrice' = value
                    /\ saveGoldPriceToFile(value)
                    /\ UNCHANGED pricePerGram
               ELSE pricePerGram' = value /\ UNCHANGED price
       ELSE UNCHANGED <<pc, totalValue, price, pricePerGram>>
    /\ UNCHANGED <<variant, op, reverse, sample, result, alloy>>

\* variant 2 calls calculateMarketValue in the branch of a possible density only
ValuationCalled(v, branch) == v = 1 \/ branch /= "invalid"

(***************************************************************************)
(* performPurityCalculation                                                *)
(***************************************************************************)
performPurityCalculation_chooseImpurity ==
  \E choice \in ChoiceTokens :
    /\ pc = "pw_impurity"
    /\ IF ImpurityChosen(choice)
       THEN /\ impurityName' = chooseImpurity(choice).name
            /\ densityOfImpurity' = chooseImpurity(choice).density
            /\ pc' = "pw_air"
       ELSE UNCHANGED <<impurityName, densityOfImpurity, pc>>
    /\ UNCHANGED <<variant, op, reverse, pricePerGram, price, weightInAir, weightInWater, objectDensity,
                   objectVolume, totalMass, result, totalValue, alloy>>

performPurityCalculation_weightInAir ==
  \E value \in AirTokens \cup RefusedTokens :
    /\ pc = "pw_air"
    /\ IF Validated(value)
       THEN weightInAir' = value /\ pc' = "pw_water"
       ELSE UNCHANGED <<weightInAir, pc>>
    /\ UNCHANGED <<variant, op, reverse, pricePerGram, price, impurityName, densityOfImpurity, weightInWater,
                   objectDensity, objectVolume, totalMass, result, totalValue, alloy>>

\* the loop on the weight in water, then the calculation
performPurityCalculation_weightInWater ==
  \E value \in WaterTokens \cup RefusedTokens :
    /\ pc = "pw_water"
    /\ IF ~Validated(value)
       THEN UNCHANGED <<pc, weightInWater, objectDensity, objectVolume, result,
                        totalValue, price>>
       ELSE /\ weightInWater' = value
            /\ IF ~WaterAccepted(weightInAir, value)
               THEN UNCHANGED <<pc, objectDensity, objectVolume, result, totalValue, price>>
               ELSE LET r == PurityFromWeight(variant, densityOfImpurity, weightInAir, value)
                    IN  /\ objectDensity' = r.objectDensity
                        /\ objectVolume' = r.objectVolume
                        /\ outcome' = r.outcome
                        /\ fraction' = r.fraction
                        /\ massOfPureGold' = r.massOfPureGold
                        /\ purityPercentage' = r.purityPercentage
                        /\ karats' = r.karats
                        /\ calculateMarketValue(ValuationCalled(variant, r.outcome),
                                                r.massOfPureGold)
    /\ UNCHANGED <<variant, op, reverse, pricePerGram, impurityName, densityOfImpurity, weightInAir, totalMass,
                   alloy>>

(***************************************************************************)
(* performDensityToPurityConversion                                        *)
(***************************************************************************)
performDensityToPurityConversion_objectDensity ==
  \E value \in DensityTokens \cup RefusedTokens :
    /\ pc = "pd_density"
    /\ IF Validated(value)
       THEN objectDensity' = value /\ pc' = "pd_mass"
       ELSE UNCHANGED <<objectDensity, pc>>
    /\ UNCHANGED <<variant, op, reverse, pricePerGram, price, impurityName, densityOfImpurity, weightInAir,
                   weightInWater, objectVolume, totalMass, result, totalValue, alloy>>

performDensityToPurityConversion_totalMass ==
  \E value \in MassTokens \cup RefusedTokens :
    /\ pc = "pd_mass"
    /\ IF Validated(value)
       THEN totalMass' = value /\ pc' = "pd_impurity"
       ELSE UNCHANGED <<totalMass, pc>>
    /\ UNCHANGED <<variant, op, reverse, pricePerGram, price, impurityName, densityOfImpurity, weightInAir,
                   weightInWater, objectDensity, objectVolume, result, totalValue, alloy>>

\* the choice of the impurity, then the calculation
performDensityToPurityConversion_chooseImpurity ==
  \E choice \in ChoiceTokens :
    /\ pc = "pd_impurity"
    /\ IF ~ImpurityChosen(choice)
       THEN UNCHANGED <<pc, impurityName, densityOfImpurity, result, totalValue, price>>
       ELSE LET metal == chooseImpurity(choice)
                r == PurityFromDensity(metal.density, objectDensity, totalMass)
            IN  /\ impurityName' = metal.name
                /\ densityOfImpurity' = metal.density
                /\ outcome' = r.outcome
                /\ fraction' = r.fraction
                /\ massOfPureGold' = r.massOfPureGold
                /\ purityPercentage' = r.purityPercentage
                /\ karats' = r.karats
                /\ calculateMarketValue(ValuationCalled(variant, r.outcome),
                                        r.massOfPureGold)
    /\ UNCHANGED <<variant, op, reverse, pricePerGram, weightInAir, weightInWater, objectDensity, objectVolume,
                   totalMass, alloy>>

(***************************************************************************)
(* performAlloyingCalculation                                              *)
(***************************************************************************)
performAlloyingCalculation_goldMass ==
  \E value \in GoldMassTokens \cup RefusedTokens :
    /\ pc = "al_gold"
    /\ IF Validated(value)
       THEN goldMass' = value /\ pc' = "al_karat"
       ELSE UNCHANGED <<goldMass, pc>>
    /\ UNCHANGED <<variant, op, reverse, pricePerGram, price, sample, result, totalValue, targetKarat,
                   targetPurity, impurityMass, totalAlloyMass>>

\* the loop on the target karat
performAlloyingCalculation_targetKarat ==
  \E value \in KaratTokens \cup RefusedTokens :
    /\ pc = "al_karat"
    /\ IF ~Validated(value)
       THEN UNCHANGED <<targetKarat, pc>>
       ELSE /\ targetKarat' = value
            /\ pc' = IF KaratAccepted(value) THEN "al_impurity" ELSE "al_karat"
    /\ UNCHANGED <<variant, op, reverse, pricePerGram, price, sample, result, totalValue, goldMass,
                   targetPurity, impurityMass, totalAlloyMass>>

\* the choice of the metal, then the calculation
performAlloyingCalculation_chooseImpurity ==
  \E choice \in ChoiceTokens :
    /\ pc = "al_impurity"
    /\ IF ~ImpurityChosen(choice)
       THEN UNCHANGED <<pc, impurityName, densityOfImpurity, targetPurity, impurityMass,
                        totalAlloyMass>>
       ELSE /\ impurityName' = chooseImpurity(choice).name
            /\ densityOfImpurity' = chooseImpurity(choice).density
            /\ targetPurity' = AlloyTargetPurity(targetKarat)
            /\ impurityMass' = AlloyImpurityMass(goldMass, targetKarat)
            /\ totalAlloyMass' = AlloyTotalMass(goldMass, targetKarat)
            /\ pc' = "menu"
    /\ UNCHANGED <<variant, op, reverse, pricePerGram, price, weightInAir, weightInWater, objectDensity,
                   objectVolume, totalMass, result, totalValue, goldMass, targetKarat>>

(***************************************************************************)
(* manageGoldPrice (variant 2)                                             *)
(***************************************************************************)
manageGoldPrice ==
  \E newPrice \in PriceTokens \cup RefusedTokens :
    /\ pc = "mp_price"
    /\ pc' = "menu"
    /\ IF newPrice /= Bad /\ Greater(newPrice, Zero)
       THEN g_currentGoldPrice' = newPrice /\ saveGoldPriceToFile(newPrice)
       ELSE UNCHANGED price
    /\ UNCHANGED <<variant, op, reverse, pricePerGram, sample, result, totalValue, alloy>>

(***************************************************************************)
(* Reverse alloying (variant 3): raise the karat of an alloy by adding     *)
(* pure gold.  The handler is not in the source file; it follows the       *)
(* design document: the request is rejected with no computation unless     *)
(* initialKarat < targetKarat and targetKarat is not above 24, and a       *)
(* target purity of exactly 1 (24 karat) is rejected too, not computed.    *)
(***************************************************************************)
\* a precondition that lets 24 karat through
ReverseAccepted_upTo24(initialKaratV, targetKaratV) ==
  Less(initialKaratV, targetKaratV) /\ LessEq(targetKaratV, Karat24)

ReverseAccepted(initialKaratV, targetKaratV) ==
  Less(initialKaratV, targetKaratV) /\ Less(targetKaratV, Karat24)

ReversePurity(karat) == Div(karat, Karat24)

ReverseAddedGoldMass(initialMassV, initialKaratV, targetKaratV) ==
  Div(Mul(initialMassV, Sub(ReversePurity(targetKaratV), ReversePurity(initialKaratV))),
      Sub(One, ReversePurity(targetKaratV)))

ReverseFinalMass(initialMassV, initialKaratV, targetKaratV) ==
  Add(initialMassV, ReverseAddedGoldMass(initialMassV, initialKaratV, targetKaratV))

main_performReverseAlloying ==
  variant = 3 /\ Dispatch(R(1, 1), "performReverseAlloying", "ra_mass")

performReverseAlloying_initialMass ==
  \E value \in InitialMassTokens \cup RefusedTokens :
    /\ pc = "ra_mass"
    /\ IF Validated(value)
       THEN initialMass' = value /\ pc' = "ra_initial"
       ELSE UNCHANGED <<initialMass, pc>>
    /\ UNCHANGED <<variant, op, price, sample, result, pricePerGram, totalValue, alloy,
                   initialKarat, initialPurity, addedGoldMass, finalMass>>

performReverseAlloying_initialKarat ==
  \E value \in InitialKaratTokens \cup RefusedTokens :
    /\ pc = "ra_initial"
    /\ IF Validated(value)
       THEN initialKarat' = value /\ pc' = "ra_target"
       ELSE UNCHANGED <<initialKarat, pc>>
    /\ UNCHANGED <<variant, op, price, sample, result, pricePerGram, totalValue, alloy,
                   initialMass, initialPurity, addedGoldMass, finalMass>>

\* the target karat, then the rejection or the calculation
performReverseAlloying_targetKarat ==
  \E value \in KaratTokens \cup RefusedTokens :
    /\ pc = "ra_target"
    /\ IF ~Validated(value)
       THEN UNCHANGED <<pc, targetKarat, targetPurity, initialPurity, addedGoldMass,
                        finalMass>>
       ELSE /\ targetKarat' = value
            /\ pc' = "menu"
            /\ IF ~ReverseAccepted(initialKarat, value)
               THEN UNCHANGED <<targetPurity, initialPurity, addedGoldMass, finalMass>>
               ELSE /\ initialPurity' = ReversePurity(initialKarat)
                    /\ targetPurity' = ReversePurity(value)
                    /\ addedGoldMass' = ReverseAddedGoldMass(initialMass, initialKarat, value)
                    /\ finalMass' = ReverseFinalMass(initialMass, initialKarat, value)
    /\ UNCHANGED <<variant, op, price, sample, result, pricePerGram, totalValue, goldMass,
                   impurityMass, totalAlloyMass, initialMass, initialKarat>>

Next ==
  \/ main_performPurityCalculation
  \/ main_performDensityToPurityConversion
  \/ main_performAlloyingCalculation
  \/ displayKaratInfo
  \/ main_manageGoldPrice
  \/ displayHelp
  \/ main_exit
  \/ main_invalid
  \/ calculateMarketValue_price
  \/ performPurityCalculation_chooseImpurity
  \/ performPurityCalculation_weightInAir
  \/ performPurityCalculation_weightInWater
  \/ performDensityToPurityConversion_objectDensity
  \/ performDensityToPurityConversion_totalMass
  \/ performDensityToPurityConversion_chooseImpurity
  \/ performAlloyingCalculation_goldMass
  \/ performAlloyingCalculation_targetKarat
  \/ performAlloyingCalculation_chooseImpurity
  \/ manageGoldPrice
  \/ main_performReverseAlloying
  \/ performReverseAlloying_initialMass
  \/ performReverseAlloying_initialKarat
  \/ performReverseAlloying_targetKarat

Spec == Init /\ [][Next]_vars

(***************************************************************************)
(* Properties                                                              *)
(***************************************************************************)
\* the from-weight calculation has run: its results are in the state
WeightDone == op = "performPurityCalculation" /\ outcome /= "none"

\* the from-density calculation has run
DensityDone == op = "performDensityToPurityConversion" /\ outcome /= "none"

\* the alloying calculation has run
AlloyDone == op = "performAlloyingCalculation" /\ impurityMass /= Unset

PurityDone == WeightDone \/ DensityDone

\* the mass a purity calculation takes as the total mass of the sample
SampleMass == IF WeightDone THEN weightInAir ELSE totalMass

\* min(19.32, impurity) - 0.05 <= d <= max(19.32, impurity) + 0.05
InEnvelope(d, impurity) ==
  LET lo == IF Less(impurity, R(1932, 100)) THEN impurity ELSE R(1932, 100)
      hi == IF Less(impurity, R(1932, 100)) THEN R(1932, 100) ELSE impurity
  IN  LessEq(Sub(lo, R(5, 100)), d) /\ LessEq(d, Add(hi, R(5, 100)))

\* |d - 19.32| < 0.05
WithinPureGold(d) == Less(R(1927, 100), d) /\ Less(d, R(1937, 100))

\* d lies strictly between the density of the impurity and 19.32
StrictlyBetween(d, impurity) ==
  \/ Less(impurity, d) /\ Less(d, R(1932, 100))
  \/ Less(R(1932, 100), d) /\ Less(d, impurity)

\* C1: once the from-weight calculation has run on weightInAir > weightInWater
\* > 0, the density times the displaced water (weightInAir - weightInWater, at
\* water density 1.0) is weightInAir, and weightInAir is the total mass of the
\* derived quantities: the volume is weightInAir / density, pure gold weighs
\* weightInAir, and the purity is massOfPureGold / weightInAir * 100.
C1_DensityFromWeight ==
  WeightDone =>
    /\ Less(Zero, weightInWater) /\ Less(weightInWater, weightInAir)
    /\ Mul(objectDensity, Sub(weightInAir, weightInWater)) = weightInAir
    /\ Mul(objectVolume, objectDensity) = weightInAir
    /\ totalMass = Unset
    /\ outcome = "pure" => massOfPureGold = weightInAir
    /\ outcome = "mixed" =>
         Mul(purityPercentage, weightInAir) = Mul(massOfPureGold, Hundred)

C1_Witness ==
  /\ WeightDone
  /\ outcome = "mixed"
  /\ weightInAir = R(1930, 100)
  /\ weightInWater = R(18, 1)
  /\ objectDensity = R(193, 13)

\* C2: in both entry points a density is accepted exactly when it lies in
\* [min(19.32, impurity) - 0.05, max(19.32, impurity) + 0.05], the two edges
\* included; with copper 8.90 is refused and 8.92 accepted.
C2_DensityValidity ==
  PurityDone =>
    /\ Greater(objectDensity, Zero)
    /\ (outcome /= "invalid") <=> InEnvelope(objectDensity, densityOfImpurity)
    /\ (impurityName = "Copper" /\ objectDensity = R(890, 100)) => outcome = "invalid"
    /\ (impurityName = "Copper" /\ objectDensity = R(892, 100)) => outcome /= "invalid"

\* the lower edge itself, reached from two weights, is accepted
C2_Witness ==
  /\ WeightDone
  /\ impurityName = "Copper"
  /\ objectDensity = R(891, 100)
  /\ outcome = "mixed"

\* C3: in both entry points a density with |d - 19.32| < 0.05 is never refused
\* by the range test and gives pureGoldMass = totalMass, purity 100, 24 karat,
\* whatever the impurity.
C3_PureGoldShortCircuit ==
  (PurityDone /\ WithinPureGold(objectDensity)) =>
    /\ outcome = "pure"
    /\ massOfPureGold = SampleMass
    /\ purityPercentage = R(100, 1)
    /\ karats = R(24, 1)

\* platinum is denser than gold: 19.28 is below both densities
C3_Witness ==
  /\ DensityDone
  /\ impurityName = "Platinum"
  /\ objectDensity = R(1928, 100)
  /\ outcome = "pure"
  /\ massOfPureGold = totalMass

\* C4: outside the pure-gold short-circuit, the volume-based mass of the
\* from-weight calculation equals the reciprocal-density mass of the
\* from-density calculation for the same total mass, density and impurity, and
\* so do the purity and the karat.
C4_DerivationsAgree ==
  /\ (WeightDone /\ outcome = "mixed") =>
       LET other == PurityFromDensity(densityOfImpurity, objectDensity, weightInAir)
       IN  /\ other.outcome = "mixed"
           /\ massOfPureGold = other.massOfPureGold
           /\ purityPercentage = other.purityPercentage
           /\ karats = other.karats
  /\ (DensityDone /\ outcome = "mixed") =>
       LET volume == Div(totalMass, objectDensity)
           mass == VolumeMassOfPureGold(objectDensity, densityOfImpurity, volume)
       IN  /\ massOfPureGold = mass
           /\ purityPercentage = Mul(Div(mass, totalMass), Hundred)

C4_Witness ==
  /\ WeightDone
  /\ outcome = "mixed"
  /\ impurityName = "Copper"
  /\ weightInAir = R(1930, 100)
  /\ weightInWater = R(18, 1)
  /\ massOfPureGold /= Zero

\* C5: with copper (lighter than gold) and with platinum (denser), a density
\* strictly between that of the impurity and 19.32 is accepted, the purity is
\* within [0, 100] and the pure-gold mass within [0, totalMass].
C5_Symmetry ==
  (/\ PurityDone
   /\ impurityName \in {"Copper", "Platinum"}
   /\ StrictlyBetween(objectDensity, densityOfImpurity)) =>
    /\ outcome /= "invalid"
    /\ LessEq(Zero, purityPercentage) /\ LessEq(purityPercentage, R(100, 1))
    /\ LessEq(Zero, massOfPureGold) /\ LessEq(massOfPureGold, SampleMass)

C5_Witness ==
  /\ WeightDone
  /\ impurityName = "Platinum"
  /\ objectDensity = R(1938, 100)
  /\ outcome = "mixed"
  /\ Less(Zero, purityPercentage)
  /\ Less(purityPercentage, R(100, 1))

\* C6: in both entry points a density outside the range ends the calculation
\* with pureGoldMass = 0, purity 0 and 0 karat; no mixing-law fraction is
\* computed, no price is asked for and no market value is computed.
C6_InvalidSentinel ==
  (PurityDone /\ ~InEnvelope(objectDensity, densityOfImpurity)) =>
    /\ outcome = "invalid"
    /\ massOfPureGold = Zero
    /\ purityPercentage = Zero
    /\ karats = Zero
    /\ fraction = Unset
    /\ totalValue = Unset
    /\ pc = "menu"

\* variant 1 calls calculateMarketValue with the mass 0
C6_Witness ==
  /\ variant = 1
  /\ WeightDone
  /\ outcome = "invalid"
  /\ massOfPureGold = Zero
  /\ pc = "menu"

\* C7: forward alloying gives impurityMass = pureGoldMass * (24/targetKarat - 1)
\* and totalAlloyMass = pureGoldMass + impurityMass, whatever the metal chosen,
\* so that 24 * pureGoldMass / totalAlloyMass is targetKarat; 10 g at 18 karat
\* give 3.333 g and 13.333 g.
C7_ForwardAlloying ==
  AlloyDone =>
    /\ Less(Zero, goldMass)
    /\ Less(Zero, targetKarat) /\ Less(targetKarat, R(24, 1))
    /\ impurityMass = Mul(goldMass, Sub(Div(R(24, 1), targetKarat), R(1, 1)))
    /\ totalAlloyMass = Add(goldMass, impurityMass)
    /\ Div(Mul(R(24, 1), goldMass), totalAlloyMass) = targetKarat
    /\ (goldMass = R(10, 1) /\ targetKarat = R(18, 1)) =>
         /\ RoundTo(impurityMass, 1000) = R(3333, 1000)
         /\ RoundTo(totalAlloyMass, 1000) = R(13333, 1000)

C7_Witness ==
  /\ AlloyDone
  /\ impurityName = "Silver"
  /\ goldMass = R(10, 1)
  /\ targetKarat = R(18, 1)
  /\ targetPurity = R(3, 4)

\* C8: an alloying result exists only for a target strictly below 24, and a
\* target of 24 or more typed at the karat prompt leaves the program at that
\* prompt with no result.
C8_TargetBelow24 ==
  /\ []((/\ op = "performAlloyingCalculation"
         /\ (pc = "al_impurity" \/ AlloyDone \/ targetPurity /= Unset
               \/ totalAlloyMass /= Unset))
          => (targetKarat /= Unset /\ Less(targetKarat, R(24, 1))))
  /\ [][(pc = "al_karat" /\ targetKarat' /= Unset /\ GreaterEq(targetKarat', R(24, 1)))
          => (/\ pc' = "al_karat"
              /\ targetPurity' = Unset
              /\ impurityMass' = Unset
              /\ totalAlloyMass' = Unset)]_vars

\* a target of 24 has been typed and refused
C8_Witness ==
  /\ pc = "al_karat"
  /\ targetKarat = R(24, 1)
  /\ impurityMass = Unset

\* C9 as stated: a weight in water that is not below the weight in air gives
\* the density 0 as a result, and the calculation goes on without an error.
C9_DegenerateGivesZero ==
  (/\ op = "performPurityCalculation"
   /\ weightInWater /= Unset
   /\ GreaterEq(weightInWater, weightInAir)) =>
    /\ objectDensity = Zero
    /\ pc /= "pw_water"

\* C9 as amended: a weight in water that is not below the weight in air is
\* refused and asked for again; no density and no result is computed from it,
\* and every density that is computed comes from weightInWater < weightInAir
\* and is above 1.
C9_DegenerateRefused ==
  /\ (/\ op = "performPurityCalculation"
      /\ weightInWater /= Unset
      /\ GreaterEq(weightInWater, weightInAir)) =>
       /\ pc = "pw_water"
       /\ objectDensity = Unset
       /\ outcome = "none"
       /\ massOfPureGold = Unset
  /\ (op = "performPurityCalculation" /\ objectDensity /= Unset) =>
       /\ Less(weightInWater, weightInAir)
       /\ Less(R(1, 1), objectDensity)

\* the two weights are equal: refused
C9_Witness ==
  /\ pc = "pw_water"
  /\ weightInAir = R(1930, 100)
  /\ weightInWater = R(1930, 100)
  /\ objectDensity = Unset

\* the doubles of the state
Doubles ==
  {g_currentGoldPrice, densityOfImpurity, weightInAir, weightInWater, objectDensity,
   objectVolume, totalMass, fraction, massOfPureGold, purityPercentage, karats,
   totalValue, goldMass, targetKarat, targetPurity, impurityMass, totalAlloyMass}

C11_DerivedConsistent ==
  PurityDone =>
    /\ outcome \in {"invalid", "pure", "mixed"}
    /\ IF purityPercentage = Zero THEN karats = Zero
       ELSE Div(karats, purityPercentage) = Div(R(24, 1), R(100, 1))
    /\ purityPercentage = Mul(Div(massOfPureGold, SampleMass), R(100, 1))

C11_Witness ==
  /\ DensityDone
  /\ outcome = "mixed"
  /\ impurityName = "Silver"
  /\ objectDensity = R(1485, 100)
  /\ totalMass = R(1930, 100)
  /\ Less(Zero, karats)

\* the price a valuation multiplies by: the one typed in (variant 1), the
\* stored one (variant 2)
PriceInUse == IF variant = 1 THEN pricePerGram ELSE g_currentGoldPrice

\* C12: a market value exists only with pureGoldMass > 0 and a price in use
\* > 0, and is their product; with pureGoldMass <= 0 the valuation gives no
\* value, asks nothing and changes nothing; the stored price is never negative.
C12_MarketValuation ==
  /\ []((totalValue /= Unset) =>
          /\ PurityDone
          /\ Less(Zero, massOfPureGold)
          /\ PriceInUse /= Unset
          /\ Less(Zero, PriceInUse)
          /\ totalValue = Mul(massOfPureGold, PriceInUse))
  /\ []((PurityDone /\ LessEq(massOfPureGold, Zero)) =>
          /\ totalValue = Unset
          /\ pricePerGram = Unset
          /\ pc = "menu")
  /\ [](LessEq(Zero, g_currentGoldPrice))
  /\ [][(outcome = "none" /\ outcome' /= "none" /\ LessEq(massOfPureGold', Zero))
          => price' = price]_vars

\* the file held -5: no price was loaded, one was asked for, and the file could
\* not be written
C12_Witness ==
  /\ variant = 2
  /\ PurityDone
  /\ priceFile = R(-5, 1)
  /\ g_currentGoldPrice = R(50, 1)
  /\ totalValue = Mul(massOfPureGold, R(50, 1))

\* the documented scenario has been computed
C13_ScenarioDone ==
  /\ WeightDone
  /\ impurityName = "Copper"
  /\ weightInAir = R(1930, 100)
  /\ weightInWater = R(18, 1)

\* C13 as stated: 19.30 g in air, 18.00 g in water and copper give the
\* density 14.85, accepted, a purity of 70.5 % and 16.9 karat.
C13_ScenarioAsStated ==
  C13_ScenarioDone =>
    /\ RoundTo(objectDensity, 100) = R(1485, 100)
    /\ outcome /= "invalid"
    /\ RoundTo(purityPercentage, 10) = R(705, 10)
    /\ RoundTo(karats, 10) = R(169, 10)

\* C13 as amended: the same weights give the density 14.85, accepted, a purity
\* of 73.9 % and 17.7 karat (14.27 g of pure gold).
C13_Scenario ==
  C13_ScenarioDone =>
    /\ RoundTo(objectDensity, 100) = R(1485, 100)
    /\ outcome = "mixed"
    /\ RoundTo(purityPercentage, 10) = R(739, 10)
    /\ RoundTo(karats, 10) = R(177, 10)
    /\ RoundTo(massOfPureGold, 100) = R(1427, 100)

C13_Witness ==
  /\ C13_ScenarioDone
  /\ variant = 2
  /\ purityPercentage = R(527988, 7141)

\* C14 as stated: the stored price changes only in the price-management
\* operation.
C14_PriceOnlyManaged ==
  [][g_currentGoldPrice' /= g_currentGoldPrice => pc = "mp_price"]_vars

\* C14 as amended: the stored price changes only in the price-management
\* operation or, when no price is stored (<= 0) and the sample holds gold, at
\* the price prompt of the valuation of a purity calculation, which stores the
\* price typed in; a stored price > 0 is never changed by a calculation, the
\* alloying calculations change neither the price nor its file, and mass,
\* purity and karat depend on the inputs of the calculation only.
C14_PriceFrame ==
  /\ [][/\ (g_currentGoldPrice' /= g_currentGoldPrice) =>
             /\ variant = 2
             /\ Less(Zero, g_currentGoldPrice')
             /\ \/ pc = "mp_price"
                \/ /\ pc = "mv_price"
                   /\ LessEq(g_currentGoldPrice, Zero)
                   /\ PurityDone
                   /\ Less(Zero, massOfPureGold)
        /\ (Less(Zero, g_currentGoldPrice) /\ pc /= "mp_price") =>
             g_currentGoldPrice' = g_currentGoldPrice
        /\ (pc \in {"al_gold", "al_karat", "al_impurity", "ra_mass", "ra_initial",
                    "ra_target"}) => price' = price]_vars
  /\ [](WeightDone =>
          LET r == PurityFromWeight(1, densityOfImpurity, weightInAir, weightInWater)
          IN  /\ massOfPureGold = r.massOfPureGold
              /\ purityPercentage = r.purityPercentage
              /\ karats = r.karats)
  /\ [](DensityDone =>
          LET r == PurityFromDensity(densityOfImpurity, objectDensity, totalMass)
          IN  /\ massOfPureGold = r.massOfPureGold
              /\ purityPercentage = r.purityPercentage
              /\ karats = r.karats)

\* no file, no price: the valuation asked for one and valued the gold with it
C14_Witness ==
  /\ variant = 2
  /\ pc = "menu"
  /\ DensityDone
  /\ priceFile = Unset
  /\ g_currentGoldPrice = R(1, 2)
  /\ totalValue = Mul(massOfPureGold, R(1, 2))

\* the reverse-alloying calculation has computed a result
ReverseDone == op = "performReverseAlloying" /\ addedGoldMass /= Unset

\* C15: for initialMass > 0 and initialKarat < targetKarat < 24,
\* addedGoldMass = initialMass * (targetKarat/24 - initialKarat/24) /
\* (1 - targetKarat/24) and finalMass = initialMass + addedGoldMass, so that the
\* karat of the result is targetKarat (20 g at 14K to 18K: 13.33 g, 33.33 g); a
\* target not above the initial karat, or of 24 or more, is rejected with no
\* computation.
C15_ReverseAlloying ==
  /\ ReverseDone =>
       /\ Less(Zero, initialMass)
       /\ Less(initialKarat, targetKarat) /\ Less(targetKarat, R(24, 1))
       /\ Mul(addedGoldMass, Sub(R(1, 1), Div(targetKarat, R(24, 1)))) =
            Mul(initialMass, Sub(Div(targetKarat, R(24, 1)), Div(initialKarat, R(24, 1))))
       /\ finalMass = Add(initialMass, addedGoldMass)
       /\ Div(Mul(R(24, 1), Add(Mul(initialMass, Div(initialKarat, R(24, 1))),
                                addedGoldMass)),
              finalMass) = targetKarat
       /\ (initialMass = R(20, 1) /\ initialKarat = R(14, 1) /\ targetKarat = R(18, 1)) =>
            /\ RoundTo(addedGoldMass, 100) = R(1333, 100)
            /\ RoundTo(finalMass, 100) = R(3333, 100)
  /\ (/\ op = "performReverseAlloying"
      /\ targetKarat /= Unset
      /\ LessEq(targetKarat, initialKarat) \/ GreaterEq(targetKarat, R(24, 1))) =>
       /\ pc = "menu"
       /\ addedGoldMass = Unset
       /\ finalMass = Unset
       /\ targetPurity = Unset
  /\ \A x \in {initialPurity, addedGoldMass, finalMass} : x = Unset \/ IsFinite(x)

C15_Witness ==
  /\ ReverseDone
  /\ initialMass = R(20, 1)
  /\ initialKarat = R(14, 1)
  /\ targetKarat = R(18, 1)
  /\ addedGoldMass = R(40, 3)

\* C16: every sample the range test accepts gets a purity within [0, 100], a
\* karat value within [0, 24] and a pure-gold mass within [0, totalMass], in
\* both entry points.
C16_PhysicalResult ==
  (PurityDone /\ outcome /= "invalid") =>
    /\ LessEq(Zero, purityPercentage) /\ LessEq(purityPercentage, R(100, 1))
    /\ LessEq(Zero, karats) /\ LessEq(karats, R(24, 1))
    /\ LessEq(Zero, massOfPureGold) /\ LessEq(massOfPureGold, SampleMass)

====
